---- MODULE Spec2Model ----
(***************************************************************************)
(* Model of the dual-mode record store of colmago (src/database.py):       *)
(* class Database, its constructor and mode selection, the CSV helpers     *)
(* _read_csv/_write_csv and the four CRUD operations plus                  *)
(* get_connection_status.                                                  *)
(*                                                                         *)
(* A table file is modelled by what csv.DictWriter puts in it and what     *)
(* csv.DictReader gets back: the header (field names of the first record   *)
(* written) and one row per record, every row holding one string per       *)
(* header field.  One table is modelled; the code treats each table file   *)
(* independently (_get_csv_path).  Record values are strings, as they are  *)
(* in local-file mode; records have the key field id and one other field.  *)
(* Where two processes work on the file at once, the file is modelled by   *)
(* its bytes: open(path, 'w') empties it, the text of the csv writer       *)
(* reaches it when the file is closed, at the start of the file, and       *)
(* csv.DictReader parses whatever bytes each read() on the file brings.    *)
(***************************************************************************)
EXTENDS Integers, Sequences, FiniteSets, TLC

\* ---------------------------------------------------------------- bounds
\* Longest table the model lets insert build.
MaxRows == 2
\* Largest id the model lets insert assign.
MaxId == 3
\* Most ids recorded in the history of assigned ids.
MaxHistory == 4

\* Longest table on disk when the two processes of a race start.
MaxRaceRows == 1

\* Longest table built when every id is assigned by insert.
MaxAssignedRows == 3

\* ---------------------------------------------------------------- inputs
Fields == {"id", "name"}
Names == {"Ana", "Bo"}
\* ids a caller may put in a record itself: an integer string, a string
\* that is no integer and the empty string
SuppliedIds == {"2", "abc", ""}
\* the id_registro arguments (int, per the signatures of update and delete)
Ids == 1..MaxId
\* SUPABASE_URL / SUPABASE_KEY: unset or empty (both falsy), or set
Creds == {"", "set"}
\* what the environment does to the call: nothing, the file read raises,
\* opening the file for writing raises, the backend call raises
Faults == {"none", "read", "write", "backend"}
\* the faults that can strike in a mode: file faults in CSV mode, backend
\* faults otherwise
FaultsIn(csv) == IF csv THEN {"none", "read", "write"} ELSE {"none", "backend"}

FieldValues(k) == IF k = "id" THEN SuppliedIds ELSE Names

\* every dict over a subset D of the fields
DictsOver(D) ==
  {d \in [D -> SuppliedIds \cup Names] :
      \A k \in D : d[k] \in FieldValues(k)}

\* dicts with any keys, dicts without the key 'id'
Dicts == UNION {DictsOver(D) : D \in SUBSET Fields}
DictsNoId == UNION {DictsOver(D) : D \in SUBSET (Fields \ {"id"})}

\* the records the two racing processes insert: a supplied id is not empty
\* (the csv writer quotes a lone empty cell; the quote is not modelled), and
\* one name is enough beside a supplied id
RaceDicts ==
  {d \in Dicts : "id" \in DOMAIN d =>
     /\ d["id"] # ""
     /\ "name" \in DOMAIN d => d["name"] = "Ana"}

\* response.data of a remote select: opaque, whatever the backend returns
RemoteData == {<<>>, <<[id |-> "1", name |-> "Ana"]>>}
\* a CSV-mode select takes nothing from the backend
DataIn(csv) == IF csv THEN {<<>>} ELSE RemoteData

\* ---------------------------------------------------------------- str / int
Digit == <<"0", "1", "2", "3", "4", "5", "6", "7", "8", "9">>

\* str(n) for a non-negative int
RECURSIVE str(_)
str(n) == IF n < 10 THEN Digit[n + 1] ELSE str(n \div 10) \o Digit[(n % 10) + 1]

\* int(s) on the strings met here (decimal digits or no integer at all):
\* ValueError unless s is the decimal form of an int
IntRange == 0..(MaxId + 1)
IsInt(s) == \E n \in IntRange : s = str(n)
int(s) == CHOOSE n \in IntRange : s = str(n)

\* max with default=1 in place of default=0
RECURSIVE max_default1(_)
max_default1(xs) ==
  IF xs = <<>> THEN 1
  ELSE LET m == max_default1(Tail(xs)) IN
       IF Len(xs) = 1 THEN Head(xs)
       ELSE IF Head(xs) > m THEN Head(xs) ELSE m

\* max(list, default=0) over a sequence of ints
RECURSIVE max(_)
max(xs) ==
  IF xs = <<>> THEN 0
  ELSE LET m == max(Tail(xs)) IN
       IF Len(xs) = 1 THEN Head(xs)
       ELSE IF Head(xs) > m THEN Head(xs) ELSE m

\* ---------------------------------------------------------------- table file
NoFile == [exists |-> FALSE, fieldnames |-> {}, rows |-> <<>>]

\* DictReader over the file: one dict per row, keyed by the header
_read_csv(f) == IF ~f.exists THEN <<>> ELSE f.rows

\* DictWriter._dict_to_list: a row with a key outside fieldnames raises
\* ValueError (extrasaction='raise'), a missing key is written as ''
WrongFields(fieldnames, row) == (DOMAIN row) \ fieldnames
_dict_to_list(fieldnames, row) ==
  [k \in fieldnames |-> IF k \in DOMAIN row THEN row[k] ELSE ""]

\* index of the first row writerows cannot write, Len + 1 when there is none
FirstBad(fieldnames, datos) ==
  LET bad == {i \in 1..Len(datos) : WrongFields(fieldnames, datos[i]) # {}}
  IN IF bad = {} THEN Len(datos) + 1
     ELSE CHOOSE i \in bad : \A j \in bad : i <= j

\* _write_csv: nothing is written for an empty list; otherwise the file is
\* opened for writing (truncated), the header is the first record's keys and
\* the rows are written one by one until one raises.  exc: an exception left
\* the function.
_write_csv(f, datos, fault) ==
  IF datos = <<>> THEN [file |-> f, exc |-> FALSE]
  ELSE IF fault = "write" THEN [file |-> f, exc |-> TRUE]
  ELSE LET fieldnames == DOMAIN datos[1]
           k == FirstBad(fieldnames, datos)
       IN [file |-> [exists |-> TRUE,
                     fieldnames |-> fieldnames,
                     rows |-> [i \in 1..(k - 1) |->
                                 _dict_to_list(fieldnames, datos[i])]],
           exc |-> k <= Len(datos)]

\* list(reader) in _read_csv raises on a file it cannot decode or parse
ReadRaises(f, fault) == f.exists /\ fault = "read"

\* ---------------------------------------------------------------- table file, as bytes
\* Python's None where DictReader has no cell for a field (restval) and as
\* the key of the surplus cells (restkey); no file text holds a "<"
None == "<None>"

NoDisk == [exists |-> FALSE, text |-> ""]

\* the order of the keys of a dict a caller passes
FieldOrder == <<"id", "name">>
keys(d) == SelectSeq(FieldOrder, LAMBDA k : k \in DOMAIN d)

\* the cells of one line, joined by the delimiter
RECURSIVE join(_)
join(cells) ==
  IF cells = <<>> THEN ""
  ELSE IF Len(cells) = 1 THEN cells[1]
  ELSE cells[1] \o "," \o join(Tail(cells))

\* csv.writer.writerow: None is written as the empty string, the line ends
\* with the line terminator of the excel dialect
writerow(cells) ==
  join([i \in 1..Len(cells) |-> IF cells[i] = None THEN "" ELSE cells[i]]) \o "\r\n"

\* DictWriter.writerow: the values in the order of fieldnames, '' for a
\* missing key
DictWriter_writerow(fieldnames, row) ==
  writerow([i \in 1..Len(fieldnames) |->
              IF fieldnames[i] \in DOMAIN row THEN row[fieldnames[i]] ELSE ""])

RECURSIVE DictWriter_writerows(_, _)
DictWriter_writerows(fieldnames, datos) ==
  IF datos = <<>> THEN ""
  ELSE DictWriter_writerow(fieldnames, Head(datos))
         \o DictWriter_writerows(fieldnames, Tail(datos))

\* writeheader and writerows of _write_csv into the buffer of the open
\* file: the header and the rows before the first one that raises
writerows(fieldnames, datos) ==
  LET names == {fieldnames[i] : i \in 1..Len(fieldnames)}
      k == FirstBad(names, datos)
  IN [text |-> writerow(fieldnames)
                 \o DictWriter_writerows(fieldnames, SubSeq(datos, 1, k - 1)),
      exc |-> k <= Len(datos)]

\* csv.reader over text from position i on; cell: the cell being read, row:
\* the cells of the line before it, lines: the lines read.  A line ends at
\* \r\n, \r or \n; an empty line is the empty list.
RECURSIVE reader(_, _, _, _, _)
reader(text, i, cell, row, lines) ==
  IF i > Len(text)
  THEN IF cell = "" /\ row = <<>> THEN lines
       ELSE Append(lines, Append(row, cell))
  ELSE LET c == SubSeq(text, i, i) IN
       IF c = "," THEN reader(text, i + 1, "", Append(row, cell), lines)
       ELSE IF c = "\r" \/ c = "\n"
       THEN LET next == IF /\ c = "\r" /\ i < Len(text)
                           /\ SubSeq(text, i + 1, i + 1) = "\n"
                        THEN i + 2 ELSE i + 1
                line == IF cell = "" /\ row = <<>> THEN <<>>
                        ELSE Append(row, cell)
            IN reader(text, next, "", <<>>, Append(lines, line))
       ELSE reader(text, i + 1, cell \o c, row, lines)

\* a list without the repeats of its elements: the order dict keeps its keys in
RECURSIVE dedup(_)
dedup(xs) ==
  IF xs = <<>> THEN <<>>
  ELSE LET d == dedup(SubSeq(xs, 1, Len(xs) - 1))
           x == xs[Len(xs)]
       IN IF \E i \in 1..Len(d) : d[i] = x THEN d ELSE Append(d, x)

\* the dict DictReader makes of a line: zip(fieldnames, line), then None for
\* the fields the line is too short for, the surplus cells (joined by
\* commas) under the key None; of a repeated field name the last one counts
DictReader_dict(fieldnames, line) ==
  [k \in {fieldnames[i] : i \in 1..Len(fieldnames)}
          \cup (IF Len(line) > Len(fieldnames) THEN {None} ELSE {}) |->
     IF k \in {fieldnames[i] : i \in 1..Len(fieldnames)}
     THEN LET i == CHOOSE j \in 1..Len(fieldnames) :
                     /\ fieldnames[j] = k
                     /\ \A h \in 1..Len(fieldnames) : fieldnames[h] = k => h <= j
          IN IF i <= Len(line) THEN line[i] ELSE None
     ELSE join(SubSeq(line, Len(fieldnames) + 1, Len(line)))]

\* list(csv.DictReader(f)) as it stands between two lines asked of
\* csv.reader.  off: the bytes read from the file so far; buf: the lines
\* read and not yet taken; stage: the line DictReader asks for next ("A":
\* the header, on the first __next__; "B": a row; "C": the header, asked for
\* when the dict of the first row is made because "A" met the end of the
\* file), "end": the list is complete, "raised": no header for the dict
\* (TypeError); has, fn: the header once read; row: the row waiting in "C";
\* keys: the key order of the first record; rows: the records so far.
NoRead ==
  [off |-> 0, buf |-> <<>>, stage |-> "A", has |-> FALSE, fn |-> <<>>,
   row |-> <<>>, keys |-> <<>>, rows |-> <<>>]

\* the record of a line is added to the list
DictReader_next(st, fieldnames, line) ==
  [st EXCEPT !.has = TRUE, !.fn = fieldnames, !.stage = "B", !.row = <<>>,
             !.rows = Append(@, DictReader_dict(fieldnames, line)),
             !.keys = IF st.rows # <<>> THEN @
                      ELSE IF Len(line) > Len(fieldnames)
                      THEN Append(dedup(fieldnames), None)
                      ELSE dedup(fieldnames)]

\* the file object behind csv.reader: with no line left of the last read()
\* it makes one read(), which brings the bytes from the position of this
\* open file to the end of the file
readline(st, text) ==
  IF st.buf = <<>> /\ Len(text) > st.off
  THEN [st EXCEPT !.off = Len(text),
                  !.buf = reader(SubSeq(text, st.off + 1, Len(text)), 1, "", <<>>, <<>>)]
  ELSE st

\* one next(reader) of DictReader: the header is the line it asks for in
\* "A" or "C", whatever the line holds; an empty line is passed over where
\* a row is asked for; at the end of the file (StopIteration) the header
\* stays unset ("A"), the list is complete ("B"), or dict finds no header
\* ("C")
reader_next(st0, text) ==
  LET st == readline(st0, text) IN
  IF st.buf = <<>>
  THEN [st EXCEPT !.stage = IF st.stage = "A" THEN "B"
                            ELSE IF st.stage = "B" THEN "end"
                            ELSE "raised"]
  ELSE LET line == Head(st.buf)
           s == [st EXCEPT !.buf = Tail(st.buf)]
       IN IF s.stage = "A"
          THEN [s EXCEPT !.stage = "B", !.has = TRUE, !.fn = line]
          ELSE IF s.stage = "C" THEN DictReader_next(s, line, s.row)
          ELSE IF line = <<>> THEN s
          ELSE IF s.has THEN DictReader_next(s, s.fn, line)
          ELSE [s EXCEPT !.stage = "C", !.row = line]

\* list(csv.DictReader(f)) on a file nobody else writes
RECURSIVE DictReader_list(_, _)
DictReader_list(st, text) ==
  IF st.stage \in {"end", "raised"} THEN st
  ELSE DictReader_list(reader_next(st, text), text)

DictReader(text) ==
  LET st == DictReader_list(NoRead, text)
  IN [keys |-> st.keys, registros |-> st.rows]

\* _read_csv on the bytes: [] when there is no file
_read_csv_text(d) ==
  IF ~d.exists THEN [keys |-> <<>>, registros |-> <<>>] ELSE DictReader(d.text)

\* open(csv_path, 'w'): the file is created or emptied
open_w(d) == [exists |-> TRUE, text |-> ""]

\* closing a file opened in append mode: the text goes after the bytes there
flush_append(d, text) == [exists |-> TRUE, text |-> d.text \o text]

\* closing the file: the buffered text is written at the position of this
\* open file, the start; bytes of the file beyond the text stay
flush(d, text) ==
  [exists |-> TRUE,
   text |-> text \o (IF Len(d.text) > Len(text)
                     THEN SubSeq(d.text, Len(text) + 1, Len(d.text))
                     ELSE "")]

\* ---------------------------------------------------------------- state
VARIABLES
  pc,         \* "new": not constructed, "ready": constructed, "raised": __init__ raised
  supabase,   \* self.supabase: "None" or "Client"
  connected,  \* self.connected
  csv_mode,   \* self.csv_mode
  csv_dir,    \* whether the directory self.csv_dir exists
  file,       \* the table's CSV file
  disk,       \* the bytes of the table's CSV file where two processes race
  last,       \* the most recent call: its name, what it returned, whether an
              \* exception was raised in it, whether one left it, how many
              \* backend calls and file accesses it made
  proc,       \* two processes that each run one insert on the table, step
              \* by step: where each is, its argument and its read while it
              \* reads, the list it read, the record it appends, the header
              \* it writes, what its insert returned
  assigned    \* the ids insert has assigned so far, in order (history)

vars == <<pc, supabase, connected, csv_mode, csv_dir, file, disk, last, proc, assigned>>

\* the processes of the two-process runs
Procs == {1, 2}
Idle == [pc |-> "idle", datos |-> <<>>, rd |-> NoRead, registros |-> <<>>,
         nuevo |-> <<>>, fieldnames |-> <<>>, ok |-> FALSE]

Call(op, ok, rows, status, raised, escaped, calls, io) ==
  [op |-> op, ok |-> ok, rows |-> rows, status |-> status,
   raised |-> raised, escaped |-> escaped, calls |-> calls, io |-> io]

Init ==
  /\ pc = "new"
  /\ supabase = "None"
  /\ connected = FALSE
  /\ csv_mode = FALSE
  /\ csv_dir \in BOOLEAN
  /\ file = NoFile
  /\ disk = NoDisk
  /\ last = Call("none", TRUE, <<>>, "", FALSE, FALSE, 0, 0)
  /\ proc = [p \in Procs |-> Idle]
  /\ assigned = <<>>

\* ---------------------------------------------------------------- construction
\* _connect without the probe read: a created client counts as connected
_connect_noprobe(url, key, clientOK, probeOK) ==
  IF url # "" /\ key # "" /\ clientOK
  THEN [supabase |-> "Client", connected |-> TRUE, csv_mode |-> FALSE, calls |-> 0]
  ELSE [supabase |-> "None", connected |-> FALSE, csv_mode |-> TRUE, calls |-> 0]

\* _connect whose except branch does not select the CSV mode
_connect_nofallback(url, key, clientOK, probeOK) ==
  IF url # "" /\ key # ""
  THEN IF ~clientOK
       THEN [supabase |-> "None", connected |-> FALSE, csv_mode |-> FALSE, calls |-> 0]
       ELSE IF ~probeOK
       THEN [supabase |-> "Client", connected |-> FALSE, csv_mode |-> FALSE, calls |-> 1]
       ELSE [supabase |-> "Client", connected |-> TRUE, csv_mode |-> FALSE, calls |-> 1]
  ELSE [supabase |-> "None", connected |-> FALSE, csv_mode |-> FALSE, calls |-> 0]

\* _connect: the try block creates the client and probes the backend with
\* one bounded read; any exception, the one raised for missing credentials
\* included, ends in the except branch, which selects the CSV mode.
_connect(url, key, clientOK, probeOK) ==
  IF url # "" /\ key # ""
  THEN IF ~clientOK
       THEN [supabase |-> "None", connected |-> FALSE, csv_mode |-> TRUE, calls |-> 0]
       ELSE IF ~probeOK
       THEN [supabase |-> "Client", connected |-> FALSE, csv_mode |-> TRUE, calls |-> 1]
       ELSE [supabase |-> "Client", connected |-> TRUE, csv_mode |-> FALSE, calls |-> 1]
  ELSE [supabase |-> "None", connected |-> FALSE, csv_mode |-> TRUE, calls |-> 0]

\* get_connection_status as a function of the two flags
StatusOf(csv, conn) ==
  IF csv THEN "CSV Local" ELSE IF conn THEN "Supabase" ELSE "Desconectado"

\* Database.__init__: the fields are set, the backup directory is created
\* when missing (os.makedirs is outside every try), then _connect runs.
__init__(url, key, clientOK, probeOK, mkdirOK) ==
  /\ pc = "new"
  /\ IF ~csv_dir /\ ~mkdirOK
     THEN /\ pc' = "raised"
          /\ supabase' = "None"
          /\ connected' = FALSE
          /\ csv_mode' = FALSE
          /\ csv_dir' = csv_dir
          /\ last' = Call("__init__", TRUE, <<>>, "", TRUE, TRUE, 0, 0)
     ELSE LET c == _connect(url, key, clientOK, probeOK) IN
          /\ pc' = "ready"
          /\ supabase' = c.supabase
          /\ connected' = c.connected
          /\ csv_mode' = c.csv_mode
          /\ csv_dir' = TRUE
          /\ last' = Call("__init__", TRUE, <<>>, "", FALSE, FALSE, c.calls, 0)
  /\ UNCHANGED <<file, disk, proc, assigned>>

\* ---------------------------------------------------------------- select
\* any() in place of all(): one matching field is enough
Matches_any(d, filtros) ==
  \E k \in DOMAIN filtros : k \in DOMAIN d /\ d[k] = filtros[k]

\* d.get(k) == v for a string v: the key is there and holds v
\* (d.get(k) is None for a missing key, and None equals no string)
Matches(d, filtros) ==
  \A k \in DOMAIN filtros : k \in DOMAIN d /\ d[k] = filtros[k]

\* outcome of a try block: exc (an exception was raised in it), escaped (the
\* exception is still in flight), the value returned otherwise, the file
\* it left, backend calls and file accesses
Outcome(exc, ok, rows, f, calls, io) ==
  [exc |-> exc, escaped |-> exc, ok |-> ok, rows |-> rows, file |-> f,
   calls |-> calls, io |-> io]

\* a backend request that is sent a second time when it raised
Backend_retry(fault, rows) ==
  IF supabase = "None" THEN Outcome(TRUE, TRUE, <<>>, file, 0, 0)
  ELSE IF fault = "backend" THEN Outcome(TRUE, TRUE, <<>>, file, 2, 0)
  ELSE Outcome(FALSE, TRUE, rows, file, 1, 0)

\* one backend request; on a missing client the attribute access raises
\* before any request is made
Backend(fault, rows) ==
  IF supabase = "None" THEN Outcome(TRUE, TRUE, <<>>, file, 0, 0)
  ELSE IF fault = "backend" THEN Outcome(TRUE, TRUE, <<>>, file, 1, 0)
  ELSE Outcome(FALSE, TRUE, rows, file, 1, 0)

\* the try block of select; an empty filtros stands for None and {} alike
select_try(filtros, fault, data) ==
  IF csv_mode
  THEN IF ReadRaises(file, fault) THEN Outcome(TRUE, TRUE, <<>>, file, 0, 1)
       ELSE LET datos == _read_csv(file) IN
            Outcome(FALSE, TRUE,
                    IF DOMAIN filtros # {}
                    THEN SelectSeq(datos, LAMBDA d : Matches(d, filtros))
                    ELSE datos,
                    file, 0, 1)
  ELSE Backend(fault, data)

\* select with its except clause: returns []
select_(filtros, fault, data) ==
  LET r == select_try(filtros, fault, data) IN
  IF r.exc THEN [r EXCEPT !.escaped = FALSE, !.rows = <<>>] ELSE r

\* ---------------------------------------------------------------- insert
\* int(r.get('id', 0)) for every stored record raises ValueError on an id
\* that is no integer literal
IdsParse(registros) ==
  \A i \in 1..Len(registros) :
     "id" \in DOMAIN registros[i] => IsInt(registros[i]["id"])
\* the ids of the first record only
IdInts_first(registros) ==
  [i \in 1..(IF Len(registros) = 0 THEN 0 ELSE 1) |->
     IF "id" \in DOMAIN registros[i] THEN int(registros[i]["id"]) ELSE 0]

IdInts(registros) ==
  [i \in 1..Len(registros) |->
     IF "id" \in DOMAIN registros[i] THEN int(registros[i]["id"]) ELSE 0]

\* the try block of insert, with the id taken from the record count instead
\* of the largest stored id
insert_try_count(datos, fault) ==
  IF csv_mode
  THEN IF ReadRaises(file, fault) THEN Outcome(TRUE, TRUE, <<>>, file, 0, 1)
       ELSE LET registros == _read_csv(file) IN
            IF "id" \notin DOMAIN datos /\ ~IdsParse(registros)
            THEN Outcome(TRUE, TRUE, <<>>, file, 0, 1)
            ELSE LET nuevo == IF "id" \notin DOMAIN datos
                              THEN datos @@ ("id" :> str(Len(registros) + 1))
                              ELSE datos
                     w == _write_csv(file, Append(registros, nuevo), fault)
                 IN Outcome(w.exc, TRUE, <<>>, w.file, 0, 2)
  ELSE Backend(fault, <<>>)

\* the try block of insert, with the record put first instead of last
insert_try_front(datos, fault) ==
  IF csv_mode
  THEN IF ReadRaises(file, fault) THEN Outcome(TRUE, TRUE, <<>>, file, 0, 1)
       ELSE LET registros == _read_csv(file) IN
            IF "id" \notin DOMAIN datos /\ ~IdsParse(registros)
            THEN Outcome(TRUE, TRUE, <<>>, file, 0, 1)
            ELSE LET nuevo == IF "id" \notin DOMAIN datos
                              THEN datos @@ ("id" :> str(max(IdInts(registros)) + 1))
                              ELSE datos
                     w == _write_csv(file, <<nuevo>> \o registros, fault)
                 IN Outcome(w.exc, TRUE, <<>>, w.file, 0, 2)
  ELSE Backend(fault, <<>>)

\* the try block of insert
insert_try(datos, fault) ==
  IF csv_mode
  THEN IF ReadRaises(file, fault) THEN Outcome(TRUE, TRUE, <<>>, file, 0, 1)
       ELSE LET registros == _read_csv(file) IN
            IF "id" \notin DOMAIN datos /\ ~IdsParse(registros)
            THEN Outcome(TRUE, TRUE, <<>>, file, 0, 1)
            ELSE LET nuevo == IF "id" \notin DOMAIN datos
                              THEN datos @@ ("id" :> str(max(IdInts(registros)) + 1))
                              ELSE datos
                     w == _write_csv(file, Append(registros, nuevo), fault)
                 IN Outcome(w.exc, TRUE, <<>>, w.file, 0, 2)
  ELSE Backend(fault, <<>>)

\* insert without the except clause: an exception leaves the call
insert_uncaught(datos, fault) == insert_try(datos, fault)

\* insert with its except clause: returns False
insert_(datos, fault) ==
  LET r == insert_try(datos, fault) IN
  IF r.exc THEN [r EXCEPT !.escaped = FALSE, !.ok = FALSE] ELSE r

\* insert between the read of the file and its rewrite, as two processes
\* interleave them: the choice of the id from the list read (leido).
\* fieldnames: the key order of the first record of the list to write, the
\* header to be.
insert_read(datos, leido) ==
  LET registros == leido.registros
  IN IF "id" \notin DOMAIN datos /\ ~IdsParse(registros)
     THEN [exc |-> TRUE, registros |-> registros, nuevo |-> datos,
           fieldnames |-> <<>>]
     ELSE [exc |-> FALSE, registros |-> registros,
           nuevo |-> IF "id" \notin DOMAIN datos
                     THEN datos @@ ("id" :> str(max(IdInts(registros)) + 1))
                     ELSE datos,
           fieldnames |-> IF registros # <<>> THEN leido.keys
                          ELSE IF "id" \notin DOMAIN datos
                          THEN Append(keys(datos), "id")
                          ELSE keys(datos)]

\* ---------------------------------------------------------------- update
\* r.get('id') == str(id_registro)
HasId(r, id_registro) == "id" \in DOMAIN r /\ r["id"] = str(id_registro)

\* index of the first record with the id, 0 when there is none (the loop
\* breaks at the first match)
FirstMatch(registros, id_registro) ==
  LET hit == {i \in 1..Len(registros) : HasId(registros[i], id_registro)}
  IN IF hit = {} THEN 0 ELSE CHOOSE i \in hit : \A j \in hit : i <= j

\* the try block of update; registros[i].update(datos) overwrites and adds
update_try(id_registro, datos, fault) ==
  IF csv_mode
  THEN IF ReadRaises(file, fault) THEN Outcome(TRUE, TRUE, <<>>, file, 0, 1)
       ELSE LET registros == _read_csv(file)
                m == FirstMatch(registros, id_registro)
                nuevos == [i \in 1..Len(registros) |->
                             IF i = m THEN datos @@ registros[i] ELSE registros[i]]
                w == _write_csv(file, nuevos, fault)
            IN Outcome(w.exc, TRUE, <<>>, w.file, 0, 2)
  ELSE Backend(fault, <<>>)

\* update with its except clause: returns False
update_(id_registro, datos, fault) ==
  LET r == update_try(id_registro, datos, fault) IN
  IF r.exc THEN [r EXCEPT !.escaped = FALSE, !.ok = FALSE] ELSE r

\* ---------------------------------------------------------------- delete
\* the try block of delete, raising when no record has the id
delete_try_strict(id_registro, fault) ==
  IF csv_mode
  THEN IF ReadRaises(file, fault) THEN Outcome(TRUE, TRUE, <<>>, file, 0, 1)
       ELSE IF FirstMatch(_read_csv(file), id_registro) = 0
       THEN Outcome(TRUE, TRUE, <<>>, file, 0, 1)
       ELSE LET registros == SelectSeq(_read_csv(file),
                                       LAMBDA r : ~HasId(r, id_registro))
                w == _write_csv(file, registros, fault)
            IN Outcome(w.exc, TRUE, <<>>, w.file, 0, 2)
  ELSE Backend(fault, <<>>)

\* the try block of delete
delete_try(id_registro, fault) ==
  IF csv_mode
  THEN IF ReadRaises(file, fault) THEN Outcome(TRUE, TRUE, <<>>, file, 0, 1)
       ELSE LET registros == SelectSeq(_read_csv(file),
                                       LAMBDA r : ~HasId(r, id_registro))
                w == _write_csv(file, registros, fault)
            IN Outcome(w.exc, TRUE, <<>>, w.file, 0, 2)
  ELSE Backend(fault, <<>>)

\* delete with its except clause: returns False
delete_(id_registro, fault) ==
  LET r == delete_try(id_registro, fault) IN
  IF r.exc THEN [r EXCEPT !.escaped = FALSE, !.ok = FALSE] ELSE r

\* ---------------------------------------------------------------- actions
\* a call that falls back to the CSV mode when it raised
Returns_fallback(op, r) ==
  /\ file' = r.file
  /\ last' = Call(op, r.ok, r.rows, "", r.exc, r.escaped, r.calls, r.io)
  /\ csv_mode' = (csv_mode \/ r.exc)
  /\ connected' = (connected /\ ~r.exc)
  /\ UNCHANGED <<pc, supabase, csv_dir, disk, proc, assigned>>

\* what a call leaves behind: the file and the record of the call; the
\* connection fields are not assigned outside _connect
Returns(op, r) ==
  /\ file' = r.file
  /\ last' = Call(op, r.ok, r.rows, "", r.exc, r.escaped, r.calls, r.io)
  /\ UNCHANGED <<pc, supabase, connected, csv_mode, csv_dir, disk, proc, assigned>>

select(filtros, fault, data) ==
  /\ pc = "ready"
  /\ Returns("select", select_(filtros, fault, data))

insert(datos, fault) ==
  /\ pc = "ready"
  /\ Returns("insert", insert_(datos, fault))

update(id_registro, datos, fault) ==
  /\ pc = "ready"
  /\ Returns("update", update_(id_registro, datos, fault))

delete(id_registro, fault) ==
  /\ pc = "ready"
  /\ Returns("delete", delete_(id_registro, fault))

get_connection_status ==
  /\ pc = "ready"
  /\ last' = Call("get_connection_status", TRUE, <<>>,
                  StatusOf(csv_mode, connected), FALSE, FALSE, 0, 0)
  /\ UNCHANGED <<pc, supabase, connected, csv_mode, csv_dir, file, disk, proc, assigned>>

\* insert(tabla, datos) in CSV mode, nothing failing, with the id of the stored
\* record added to the history of assigned ids
InsertTracked(datos) ==
  /\ pc = "ready" /\ csv_mode
  /\ LET r == insert_(datos, "none")
         after == _read_csv(r.file)
     IN /\ file' = r.file
        /\ last' = Call("insert", r.ok, r.rows, "", r.exc, r.escaped, r.calls, r.io)
        /\ assigned' = IF r.ok THEN Append(assigned, after[Len(after)]["id"])
                       ELSE assigned
  /\ UNCHANGED <<pc, supabase, connected, csv_mode, csv_dir, disk, proc>>

\* process p has its list, or an exception in place of it (raised); its
\* insert goes on to the rewrite or returns False
InsertHasRead(p, datos, leido, raised) ==
  LET r == insert_read(datos, leido) IN
  /\ proc' = [proc EXCEPT ![p] =
                [pc |-> IF raised \/ r.exc THEN "done" ELSE "read",
                 datos |-> <<>>, rd |-> NoRead,
                 registros |-> leido.registros,
                 nuevo |-> IF raised THEN datos ELSE r.nuevo,
                 fieldnames |-> IF raised THEN <<>> ELSE r.fieldnames,
                 ok |-> FALSE]]
  /\ last' = IF raised \/ r.exc
             THEN Call("insert", FALSE, <<>>, "", TRUE, FALSE, 0, 1)
             ELSE last

\* process p, whose store is in CSV mode, enters insert(tabla, datos): with no
\* file the list is [], otherwise the file is opened for reading
InsertRead(p, datos) ==
  /\ pc = "ready" /\ csv_mode
  /\ proc[p].pc = "idle"
  /\ IF ~disk.exists
     THEN InsertHasRead(p, datos, [keys |-> <<>>, registros |-> <<>>], FALSE)
     ELSE /\ proc' = [proc EXCEPT ![p].pc = "reading", ![p].datos = datos]
          /\ last' = last
  /\ UNCHANGED <<pc, supabase, connected, csv_mode, csv_dir, file, disk, assigned>>

\* process p asks csv.reader for the next line: DictReader goes on with
\* it, or the read ends (an id that does not parse then ends the call with
\* False, and so does the TypeError of a dict without a header)
InsertReadMore(p) ==
  /\ proc[p].pc = "reading"
  /\ LET st == reader_next(proc[p].rd, disk.text) IN
     IF st.stage \in {"end", "raised"}
     THEN InsertHasRead(p, proc[p].datos, [keys |-> st.keys, registros |-> st.rows],
                        st.stage = "raised")
     ELSE /\ proc' = [proc EXCEPT ![p].rd = st]
          /\ last' = last
  /\ UNCHANGED <<pc, supabase, connected, csv_mode, csv_dir, file, disk, assigned>>

\* process p opens the file for writing in _write_csv
InsertOpen(p) ==
  /\ proc[p].pc = "read"
  /\ disk' = open_w(disk)
  /\ proc' = [proc EXCEPT ![p].pc = "open"]
  /\ UNCHANGED <<pc, supabase, connected, csv_mode, csv_dir, file, last, assigned>>

\* process p has written the header and the rows of its list, the file is
\* closed (also when a row raised) and insert returns
InsertClose(p) ==
  /\ proc[p].pc = "open"
  /\ LET w == writerows(proc[p].fieldnames,
                        Append(proc[p].registros, proc[p].nuevo)) IN
     /\ disk' = flush(disk, w.text)
     /\ proc' = [proc EXCEPT ![p].pc = "done", ![p].ok = ~w.exc]
     /\ last' = Call("insert", ~w.exc, <<>>, "", w.exc, FALSE, 0, 2)
  /\ UNCHANGED <<pc, supabase, connected, csv_mode, csv_dir, file, assigned>>

\* a whole insert(tabla, datos) on the bytes, run before the two processes
\* start
InsertAlone(datos) ==
  /\ pc = "ready" /\ csv_mode
  /\ \A p \in Procs : proc[p].pc = "idle"
  /\ LET r == insert_read(datos, _read_csv_text(disk))
         w == writerows(r.fieldnames, Append(r.registros, r.nuevo))
     IN IF r.exc
        THEN /\ disk' = disk
             /\ last' = Call("insert", FALSE, <<>>, "", TRUE, FALSE, 0, 1)
        ELSE /\ disk' = flush(open_w(disk), w.text)
             /\ last' = Call("insert", ~w.exc, <<>>, "", w.exc, FALSE, 0, 2)
  /\ UNCHANGED <<pc, supabase, connected, csv_mode, csv_dir, file, proc, assigned>>

\* ---------------------------------------------------------------- specification
\* the table stays within rows records and the assigned id within MaxId
InsertInBounds(datos, rows) ==
  csv_mode =>
    /\ Len(_read_csv(file)) < rows
    /\ ("id" \notin DOMAIN datos /\ IdsParse(_read_csv(file)))
          => max(IdInts(_read_csv(file))) + 1 <= MaxId

Filters == Dicts \cup DictsOver({"id"})

Construct ==
  \E url \in Creds, key \in Creds, clientOK \in BOOLEAN,
     probeOK \in BOOLEAN, mkdirOK \in BOOLEAN :
       __init__(url, key, clientOK, probeOK, mkdirOK)
Select == \E filtros \in Filters, fault \in FaultsIn(csv_mode),
             data \in DataIn(csv_mode) : select(filtros, fault, data)
Insert == \E datos \in Dicts, fault \in FaultsIn(csv_mode) :
             InsertInBounds(datos, MaxRows) /\ insert(datos, fault)
Update == \E id_registro \in Ids, datos \in Dicts, fault \in FaultsIn(csv_mode) :
             update(id_registro, datos, fault)
Delete == \E id_registro \in Ids, fault \in FaultsIn(csv_mode) :
             delete(id_registro, fault)

\* every call with every input
Next ==
  \/ Construct
  \/ Select
  \/ Insert
  \/ Update
  \/ Delete
  \/ get_connection_status

Spec == Init /\ [][Next]_vars

\* the calls of one process that leaves every id to the store: inserts of
\* records without an id, updates whose payload has no id, deletes
InsertAssigned == \E datos \in DictsNoId, fault \in FaultsIn(csv_mode) :
                     InsertInBounds(datos, MaxAssignedRows) /\ insert(datos, fault)
UpdateNoId == \E id_registro \in Ids, datos \in DictsNoId,
                 fault \in FaultsIn(csv_mode) : update(id_registro, datos, fault)

NextAssigned ==
  \/ Construct
  \/ InsertAssigned
  \/ UpdateNoId
  \/ Delete

SpecAssigned == Init /\ [][NextAssigned]_vars

\* consecutive inserts of records without an id that share their field
\* names, nothing failing, and reads of the whole table
InsertSame == \E datos \in DictsNoId :
                 /\ InsertInBounds(datos, MaxAssignedRows)
                 /\ file.exists => DOMAIN datos \cup {"id"} = file.fieldnames
                 /\ insert(datos, "none")
SelectAll == \E data \in DataIn(csv_mode) : select(<<>>, "none", data)

NextInserts ==
  \/ Construct
  \/ InsertSame
  \/ SelectAll
  \/ get_connection_status

SpecInserts == Init /\ [][NextInserts]_vars

\* two processes, each running one insert on the same table file, after
\* inserts that built the file one at a time
InsertsAlone == \E datos \in RaceDicts :
                   /\ Len(_read_csv_text(disk).registros) < MaxRaceRows
                   /\ InsertAlone(datos)
ProcReads == \E p \in Procs, datos \in RaceDicts : InsertRead(p, datos)
ProcReadsMore == \E p \in Procs : InsertReadMore(p)
ProcOpens == \E p \in Procs : InsertOpen(p)
ProcCloses == \E p \in Procs : InsertClose(p)

NextRace ==
  \/ Construct
  \/ InsertsAlone
  \/ ProcReads
  \/ ProcReadsMore
  \/ ProcOpens
  \/ ProcCloses

SpecRace == Init /\ [][NextRace]_vars

\* inserts of every record and deletes of every id, file faults included
NextDeletes ==
  \/ Construct
  \/ Insert
  \/ Delete

SpecDeletes == Init /\ [][NextDeletes]_vars

\* one process, a sequence of inserts of records without an id and deletes
InsertsTracked == \E datos \in DictsNoId :
                     /\ InsertInBounds(datos, MaxAssignedRows)
                     /\ Len(assigned) < MaxHistory
                     /\ InsertTracked(datos)

NextReuse ==
  \/ Construct
  \/ InsertsTracked
  \/ Delete

SpecReuse == Init /\ [][NextReuse]_vars

TypeOK ==
  /\ pc \in {"new", "ready", "raised"}
  /\ supabase \in {"None", "Client"}
  /\ connected \in BOOLEAN /\ csv_mode \in BOOLEAN /\ csv_dir \in BOOLEAN
  /\ file.exists \in BOOLEAN /\ disk.exists \in BOOLEAN
  /\ Len(file.rows) <= MaxRows \/ Len(file.rows) <= MaxAssignedRows
  /\ \A i \in 1..Len(file.rows) : DOMAIN file.rows[i] = file.fieldnames

\* the records select(tabla) returns when nothing fails
Stored == _read_csv(file)

\* the same, read from the bytes the two processes left
DiskStored == _read_csv_text(disk).registros

\* what select(tabla) returns from the text of process p alone
Written(p) ==
  DictReader(writerows(proc[p].fieldnames,
                       Append(proc[p].registros, proc[p].nuevo)).text).registros

\* ---------------------------------------------------------------- claims
Mutators == {"insert", "update", "delete"}

\* C1: in both modes no exception leaves select, insert, update or delete;
\* a call in which the file read, the file write or the backend call raised
\* returns the empty sequence (select) or false (insert, update, delete).
C1_NoExceptionEscapes ==
  last.op \in Mutators \cup {"select"} =>
    /\ ~last.escaped
    /\ last.raised =>
         /\ last.op = "select" => last.rows = <<>>
         /\ last.op \in Mutators => last.ok = FALSE

\* a remote insert whose backend call raised
C1_Witness == last.op = "insert" /\ last.raised /\ ~csv_mode /\ last.calls = 1

\* C2 (as claimed): in CSV mode, after delete(tabla, id) returned true no
\* stored record has the id str(id), whatever the table held before.
C2_DeleteRemovesAll ==
  [][\A id_registro \in Ids :
       (csv_mode /\ delete(id_registro, "none") /\ last'.ok)
          => \A i \in 1..Len(Stored') : ~HasId(Stored'[i], id_registro)]_vars

\* the position of the first record of a table whose id is str(id), 0 when
\* no record has it
FirstWithId(tabla, id_registro) ==
  LET S == {i \in 1..Len(tabla) :
              "id" \in DOMAIN tabla[i] /\ tabla[i]["id"] = str(id_registro)}
  IN IF S = {} THEN 0 ELSE CHOOSE i \in S : \A j \in S : i <= j

\* the table after equals the table before except that record m took the
\* payload's fields
MergedAt(before, after, m, datos) ==
  /\ Len(after) = Len(before)
  /\ \A i \in 1..Len(before) : i # m => after[i] = before[i]
  /\ DOMAIN after[m] = DOMAIN before[m] \cup DOMAIN datos
  /\ \A k \in DOMAIN datos : after[m][k] = datos[k]
  /\ \A k \in DOMAIN before[m] \ DOMAIN datos : after[m][k] = before[m][k]

\* C3 (as claimed): in CSV mode update(tabla, id, payload) changes nothing but
\* the payload's fields of the first record whose id is str(id), for every
\* table, id and payload; with no such record it returns true and changes
\* nothing.
C3_UpdateMergesOneRecord ==
  [][\A id_registro \in Ids, datos \in Dicts :
       (csv_mode /\ update(id_registro, datos, "none"))
          => LET m == FirstWithId(Stored, id_registro) IN
             IF m = 0 THEN last'.ok /\ Stored' = Stored
             ELSE MergedAt(Stored, Stored', m, datos)]_vars

\* C5 (as claimed): in CSV mode every record stored after an update has the
\* id it had before the update, whatever the payload.
C5_UpdateKeepsIds ==
  [][(csv_mode /\ last'.op = "update")
       => \A i \in 1..Len(Stored') :
            i <= Len(Stored) /\ Stored'[i]["id"] = Stored[i]["id"]]_vars

\* C9 (as claimed): construction never raises and ends in exactly one of the
\* Remote and LocalFile modes, whatever the credentials, the probe and the
\* creation of the backup directory do.
C9_InitNeverRaises ==
  [][pc = "new" /\ last'.op = "__init__"
       => /\ ~last'.escaped
          /\ pc' = "ready"
          /\ (csv_mode' /\ ~connected') \/ (~csv_mode' /\ connected')]_vars

\* C4: in CSV mode, with one process whose inserts supply no id and whose
\* update payloads have no id field, starting from an empty table, no two
\* records of the table have the same id.
C4_AssignedIdsUnique ==
  csv_mode =>
    \A i \in 1..Len(Stored), j \in 1..Len(Stored) :
       i # j => Stored[i]["id"] # Stored[j]["id"]

\* an insert after a delete of the first record: the table holds ids 2 and 3
C4_Witness ==
  /\ csv_mode /\ last.op = "insert" /\ last.ok
  /\ Len(Stored) = 2 /\ Stored[1]["id"] = "2" /\ Stored[2]["id"] = "3"

\* C6: in CSV mode, starting with no file, consecutive inserts of records
\* that carry no id and share their field names each return true, the k-th
\* gets the id str(k), and select(tabla) returns the inserted records in
\* insertion order.
C6_InsertRoundTrip ==
  [][\A datos \in DictsNoId :
       (csv_mode /\ insert(datos, "none"))
          => /\ last'.ok
             /\ select_(<<>>, "none", <<>>).rows' =
                  Append(select_(<<>>, "none", <<>>).rows,
                         [k \in DOMAIN datos \cup {"id"} |->
                            IF k = "id" THEN str(Len(Stored) + 1) ELSE datos[k]])
             /\ \A k \in 1..Len(Stored') : Stored'[k]["id"] = str(k)]_vars

\* three records inserted and read back
C6_Witness ==
  /\ csv_mode /\ last.op = "select" /\ Len(last.rows) = 3
  /\ \A k \in 1..3 : DOMAIN last.rows[k] = {"id", "name"}
  /\ \A k \in 1..3 : last.rows[k]["id"] = str(k)
  /\ last.rows[1]["name"] = "Ana" /\ last.rows[2]["name"] = "Bo"

\* the stored records that pass a filter, in stored order
Passing(tabla, filtros) ==
  {i \in 1..Len(tabla) :
     \A k \in DOMAIN filtros : k \in DOMAIN tabla[i] /\ tabla[i][k] = filtros[k]}
IsExactlyThePassing(res, tabla, filtros) ==
  LET P == Passing(tabla, filtros) IN
  /\ Len(res) = Cardinality(P)
  /\ \A n \in 1..Len(res) :
       res[n] = tabla[CHOOSE i \in P : Cardinality({j \in P : j <= i}) = n]

\* C7: in CSV mode select(tabla, filtros) returns exactly the stored records,
\* in stored order, whose value equals the filter value for every field named
\* in filtros, and all stored records when filtros is absent or empty.
C7_SelectFiltersExactly ==
  (pc = "ready" /\ csv_mode) =>
    \A filtros \in Filters :
       /\ IsExactlyThePassing(select_(filtros, "none", <<>>).rows, Stored, filtros)
       /\ DOMAIN filtros = {} => select_(filtros, "none", <<>>).rows = Stored

\* a select that returned the second of two stored records
C7_Witness ==
  /\ csv_mode /\ last.op = "select" /\ ~last.raised
  /\ Len(Stored) = 2 /\ last.rows = <<Stored[2]>> /\ Stored[1] # Stored[2]

\* C8: once construction has finished, csv_mode and connected keep their
\* values through every call, failed or not, in either mode, and
\* get_connection_status returns the value it would have returned right
\* after construction and changes no state.
C8_ModeNeverChanges ==
  [][pc = "ready"
       => /\ csv_mode' = csv_mode
          /\ connected' = connected
          /\ StatusOf(csv_mode', connected') = StatusOf(csv_mode, connected)
          /\ last'.op = "get_connection_status"
               => /\ last'.status = StatusOf(csv_mode, connected)
                  /\ UNCHANGED <<pc, supabase, connected, csv_mode, csv_dir, file>>]_vars

\* the store still reports Supabase after a remote call has failed
C8_Witness ==
  /\ last.op = "get_connection_status" /\ last.status = "Supabase"
  /\ ~csv_mode /\ connected

\* C10: the mode of a constructed store follows from the inputs of the
\* construction: credentials
\* present, client created and probe read succeeding give the Remote mode
\* and the status "Supabase"; credentials absent, or client creation or the
\* probe read failing, give the CSV mode and the status "CSV Local".
C10_ModeDetermined ==
  [][pc = "new" /\ pc' = "ready"
       => \A url \in Creds, key \in Creds, clientOK \in BOOLEAN,
             probeOK \in BOOLEAN, mkdirOK \in BOOLEAN :
            __init__(url, key, clientOK, probeOK, mkdirOK)
              => IF url = "set" /\ key = "set" /\ clientOK /\ probeOK
                 THEN /\ ~csv_mode' /\ connected'
                      /\ StatusOf(csv_mode', connected') = "Supabase"
                 ELSE /\ csv_mode' /\ ~connected'
                      /\ StatusOf(csv_mode', connected') = "CSV Local"]_vars

\* a store constructed in the Remote mode
C10_Witness ==
  /\ pc = "ready" /\ last.op = "__init__" /\ ~csv_mode /\ connected
  /\ supabase = "Client" /\ last.calls = 1

\* C11: in CSV mode, for every table and id, delete(tabla, id) called twice
\* in a row returns true both times and the second call leaves the table as
\* the first call left it.
C11_DeleteIdempotent ==
  [][(csv_mode /\ last'.op = "delete")
       => \A id_registro \in Ids :
            delete(id_registro, "none")
              => /\ last'.ok
                 /\ delete_(id_registro, "none").ok'
                 /\ delete_(id_registro, "none").file' = file']_vars

\* a delete that left the single record with id 3: the records with ids 1
\* and 2 are gone
C11_Witness ==
  /\ csv_mode /\ last.op = "delete" /\ last.ok
  /\ Len(Stored) = 1 /\ Stored[1]["id"] = "3"

\* C12: in Remote mode every select, insert, update and delete makes at most
\* one backend call; when that call raises, the operation returns [] or
\* false without a second backend attempt, touches no table file and stays
\* in Remote mode.
C12_RemoteNoRetryNoFallback ==
  [][(pc = "ready" /\ ~csv_mode /\ last'.op \in Mutators \cup {"select"})
       => /\ last'.calls <= 1
          /\ last'.io = 0
          /\ file' = file
          /\ ~csv_mode' /\ connected' = connected
          /\ last'.raised =>
               /\ last'.op = "select" => last'.rows = <<>>
               /\ last'.op \in Mutators => ~last'.ok]_vars

\* a remote select whose one backend call raised
C12_Witness ==
  /\ ~csv_mode /\ connected /\ last.op = "select"
  /\ last.raised /\ last.calls = 1 /\ last.rows = <<>>

\* C13: two processes in CSV mode each run insert on the same table with no
\* lock between the read of the file and its rewrite: whenever both read
\* the same list and both return true, the table begins with the list of
\* one process followed by its record, and the record of the other process
\* is not in what follows (at most the bytes the shorter text left of it);
\* the store does nothing about it.
C13_LostWrite ==
  (/\ \A p \in Procs : proc[p].pc = "done" /\ proc[p].ok
   /\ proc[1].registros = proc[2].registros)
     => /\ \E p \in Procs :
             LET n == Len(proc[p].registros) + 1
                 q == CHOOSE o \in Procs : o # p
             IN /\ Len(DiskStored) >= n
                /\ SubSeq(DiskStored, 1, n) = Written(p)
                /\ \A i \in (n + 1)..Len(DiskStored) :
                     DiskStored[i] # Written(q)[n]
        /\ last.op = "insert" /\ last.ok /\ ~last.raised

\* both inserts returned true, the records differ, one of them is stored
C13_Witness ==
  /\ \A p \in Procs : proc[p].pc = "done" /\ proc[p].ok
  /\ proc[1].nuevo = [id |-> "1", name |-> "Ana"]
  /\ proc[2].nuevo = [id |-> "1", name |-> "Bo"]
  /\ DiskStored = <<[id |-> "1", name |-> "Ana"]>>

\* a record kept through a rewrite: every field it had, with the same value
AgreesOn(before, after) ==
  \A k \in DOMAIN before : k \in DOMAIN after /\ after[k] = before[k]

\* a is b with some elements left out, the rest in the same order
RECURSIVE IsSubseq(_, _)
IsSubseq(a, b) ==
  IF a = <<>> THEN TRUE
  ELSE IF b = <<>> THEN FALSE
  ELSE IF Head(a) = Head(b) THEN IsSubseq(Tail(a), Tail(b))
  ELSE IsSubseq(a, Tail(b))

\* C14: in CSV mode, with one process, the stored order is the insertion
\* order: a successful insert puts the new record after the records already
\* stored, a successful update keeps every record at its position and a
\* successful delete leaves the records it keeps in their order.
C14_InsertionOrderKept ==
  (pc = "ready" /\ csv_mode) =>
    /\ \A datos \in Dicts :
         LET r == insert_(datos, "none")
             after == _read_csv(r.file)
         IN r.ok => /\ Len(after) = Len(Stored) + 1
                    /\ \A i \in 1..Len(Stored) : after[i] = Stored[i]
                    /\ AgreesOn(datos, after[Len(after)])
    /\ \A id_registro \in Ids, datos \in Dicts :
         LET r == update_(id_registro, datos, "none")
             after == _read_csv(r.file)
             m == FirstWithId(Stored, id_registro)
         IN r.ok => /\ Len(after) = Len(Stored)
                    /\ \A i \in 1..Len(Stored) :
                         IF i = m THEN AgreesOn(datos, after[i])
                         ELSE AgreesOn(Stored[i], after[i])
    /\ \A id_registro \in Ids :
         LET r == delete_(id_registro, "none")
             after == _read_csv(r.file)
         IN r.ok => IsSubseq(after, Stored)

\* the table after insert, insert, delete of the first record, insert and an
\* update of the last record
C14_Witness ==
  /\ csv_mode /\ last.op = "update" /\ last.ok
  /\ Stored = <<[id |-> "2", name |-> "Ana"], [id |-> "3", name |-> "Bo"]>>

\* C15: in CSV mode, on a table whose stored ids are all integer strings, an
\* insert stores the record: without an id under the decimal string of
\* 1 + the largest stored id (1 on an empty table), with an id under that id.
C15_InsertStoresUnderNextId ==
  (pc = "ready" /\ csv_mode /\ IdsParse(Stored)) =>
    \A datos \in Dicts :
      LET after == _read_csv(insert_(datos, "none").file) IN
      /\ Len(after) = Len(Stored) + 1
      /\ "id" \in DOMAIN after[Len(after)]
      /\ after[Len(after)]["id"] =
           IF "id" \in DOMAIN datos THEN datos["id"]
           ELSE str(max(IdInts(Stored)) + 1)

\* C16: in CSV mode, on a non-empty table, insert of a record of any field
\* set returns true and leaves the previous records followed by the new
\* record with all of its fields (records without an id are taken on tables
\* whose ids parse, where the id can be assigned).
C16_AnyFieldSetAccepted ==
  (pc = "ready" /\ csv_mode /\ Stored # <<>>) =>
    \A datos \in Dicts :
      ("id" \in DOMAIN datos \/ IdsParse(Stored)) =>
        LET r == insert_(datos, "none")
            after == _read_csv(r.file)
        IN /\ r.ok
           /\ Len(after) = Len(Stored) + 1
           /\ \A i \in 1..Len(Stored) : after[i] = Stored[i]
           /\ AgreesOn(datos, after[Len(after)])
           /\ DOMAIN after[Len(after)] = DOMAIN datos \cup {"id"}

\* C17: in CSV mode, an insert, update or delete that returns false, nothing
\* failing in the file system, leaves the table as it was.
C17_FailedMutationKeepsTable ==
  (pc = "ready" /\ csv_mode) =>
    /\ \A datos \in Dicts :
         LET r == insert_(datos, "none") IN ~r.ok => _read_csv(r.file) = Stored
    /\ \A id_registro \in Ids, datos \in Dicts :
         LET r == update_(id_registro, datos, "none")
         IN ~r.ok => _read_csv(r.file) = Stored
    /\ \A id_registro \in Ids :
         LET r == delete_(id_registro, "none") IN ~r.ok => _read_csv(r.file) = Stored

\* the ids in the history
AssignedIds == {assigned[i] : i \in 1..Len(assigned)}

\* C18 as stated: an id the store assigns was never assigned before, not
\* even to a record that has been deleted since.
C18_AssignedIdNeverReused ==
  [][(Len(assigned') = Len(assigned) + 1)
       => assigned'[Len(assigned')] \notin AssignedIds]_vars

\* C18: an id the store assigns is one more than the largest id stored at
\* the time of the insert, so it differs from the id of every record stored
\* then; the id of a deleted record is assigned again when no record with
\* that id or a larger one is left.
C18_AssignedIdAboveStored ==
  [][(Len(assigned') = Len(assigned) + 1)
       => /\ assigned'[Len(assigned')] = str(max(IdInts(Stored)) + 1)
          /\ \A i \in 1..Len(Stored) :
               Stored[i]["id"] # assigned'[Len(assigned')]]_vars

\* insert, insert, delete of record 2, insert: the id 2 assigned twice
C18_Witness ==
  /\ csv_mode /\ last.op = "insert" /\ last.ok
  /\ assigned = <<"1", "2", "2">>
  /\ Len(Stored) = 2 /\ Stored[1]["id"] = "1" /\ Stored[2]["id"] = "2"

\* C19: once constructed, exactly one of connected and csv_mode is true and
\* a false csv_mode comes with a client; so get_connection_status never
\* answers "Desconectado" and every operation of the remote mode reaches the
\* backend through a client.
C19_ExactlyOneMode ==
  pc = "ready" =>
    /\ connected # csv_mode
    /\ ~csv_mode => supabase = "Client"
    /\ StatusOf(csv_mode, connected) # "Desconectado"
    /\ last.op = "get_connection_status" => last.status \in {"CSV Local", "Supabase"}
    /\ (~csv_mode /\ last.op \in Mutators \cup {"select"}) => last.calls >= 1

\* the probe failed after the client was created: CSV mode with a client
C19_Witness ==
  /\ pc = "ready" /\ last.op = "get_connection_status"
  /\ last.status = "CSV Local" /\ supabase = "Client" /\ ~connected /\ csv_mode

\* C20: in CSV mode, while a stored record has an id that is no integer
\* string, insert of a record without an id returns false and leaves the
\* table unchanged, and insert of a record with an id returns true.
C20_BadIdBlocksOnlyIdless ==
  (pc = "ready" /\ csv_mode /\ ~IdsParse(Stored)) =>
    \A datos \in Dicts :
      LET r == insert_(datos, "none") IN
      IF "id" \in DOMAIN datos THEN r.ok
      ELSE ~r.ok /\ r.file = file

====
